---------------------------- MODULE Spec2Model ----------------------------
(* CreditNexus client: the document-review workflow of App.tsx, the review  *)
(* panel of ReviewInterface.tsx and the FDC3 adapter hook useFDC3.          *)
EXTENDS Integers, Sequences, FiniteSets, TLC

(***************************************************************************)
(* Bounds of the model                                                     *)
(***************************************************************************)
MaxOps == 4         \* file selections, extraction requests and approvals in one run
MaxParties == 2     \* parties of an agreement given to the mapping
MaxFacilities == 2  \* facilities of an agreement given to the mapping

(***************************************************************************)
(* Values                                                                  *)
(***************************************************************************)
\* JavaScript undefined / null, as the value of a state cell
Undefined == [undefined |-> TRUE]

\* document texts are sequences of characters; " " is whitespace
Whitespace == {" "}
FileTexts == { <<" ">>, <<"A">>, <<"B">> }

\* String.prototype.trim: strip leading and trailing whitespace
RECURSIVE TrimLeft(_)
TrimLeft(s) ==
    IF s # <<>> /\ Head(s) \in Whitespace THEN TrimLeft(Tail(s)) ELSE s

RECURSIVE TrimRight(_)
TrimRight(s) ==
    IF s # <<>> /\ s[Len(s)] \in Whitespace
    THEN TrimRight(SubSeq(s, 1, Len(s) - 1))
    ELSE s

Trim(s) == TrimRight(TrimLeft(s))

\* the sample agreement handleExtract stores when the request fails
MockAgreement ==
    [agreement_date |-> "2023-10-15",
     parties |-> << [name |-> "ACME INDUSTRIES INC.", role |-> "Borrower"],
                    [name |-> "GLOBAL BANK CORP.", role |-> "Lender"] >>,
     facilities |-> << [facility_name |-> "Term Loan Facility",
                        commitment_amount |-> [amount |-> 500000000, currency |-> "USD"],
                        maturity_date |-> "2028-10-15"] >>,
     governing_law |-> "State of New York",
     extraction_status |-> "success"]

\* agreements the extraction endpoint may answer with
SuccessAgreement ==
    [agreement_date |-> "2024-01-31",
     parties |-> << [name |-> "BETA LTD", role |-> "Borrower"] >>,
     facilities |-> << [facility_name |-> "Revolver",
                        commitment_amount |-> [amount |-> 100, currency |-> "EUR"],
                        maturity_date |-> "2029-01-31"],
                       [facility_name |-> "Term Loan B",
                        commitment_amount |-> [amount |-> 250, currency |-> "USD"],
                        maturity_date |-> "2030-01-31"] >>,
     governing_law |-> "England",
     extraction_status |-> "success"]

IrrelevantAgreement ==
    [agreement_date |-> "",
     parties |-> << >>,
     facilities |-> << >>,
     governing_law |-> "",
     extraction_status |-> "irrelevant_document"]

\* extraction_status is optional in CreditAgreement
UnsetStatusAgreement ==
    [agreement_date |-> "2022-06-30",
     parties |-> << [name |-> "GAMMA SA", role |-> "Lender"] >>,
     facilities |-> << [facility_name |-> "Bridge",
                        commitment_amount |-> [amount |-> 75, currency |-> "GBP"],
                        maturity_date |-> "2023-06-30"] >>,
     governing_law |-> "France"]

\* a 2xx JSON body that is an object but no agreement
EmptyObject == [x \in {} |-> x]

\* bodies of 2xx responses: {agreement: ...} or the agreement fields directly
ResponseBodies ==
    { [agreement |-> SuccessAgreement],
      IrrelevantAgreement,
      UnsetStatusAgreement,
      EmptyObject }

\* ways the request fails: fetch rejects, response.ok is false, json() throws
Failures == {"network", "non2xx", "badjson"}

\* property read of a JavaScript object: undefined when the key is absent
Has(o, k) == k \in DOMAIN o

\* result.agreement || result
Unwrap(result) == IF Has(result, "agreement") THEN result.agreement ELSE result

\* const isSuccess = status === 'success' || !status
IsSuccess(a) ==
    \/ ~Has(a, "extraction_status")
    \/ a.extraction_status = ""
    \/ a.extraction_status = "success"

\* const isFailure = status === 'irrelevant_document'
IsFailure(a) == Has(a, "extraction_status") /\ a.extraction_status = "irrelevant_document"

\* MapFacility with the currency hard-coded instead of read from the facility
MapFacilityFixedCurrency(f) ==
    [name |-> f.facility_name,
     amount |-> f.commitment_amount.amount,
     currency |-> "USD"]

\* f => ({name, amount, currency}) of handleApprove
MapFacility(f) ==
    [name |-> f.facility_name,
     amount |-> f.commitment_amount.amount,
     currency |-> f.commitment_amount.currency]

\* facilities?.map(...)
MapFacilities(fs) == [i \in 1..Len(fs) |-> MapFacility(fs[i])]

\* the context handleApprove builds from the agreement under review; a key
\* whose value is undefined is absent
toWireContext(a) ==
    [type |-> "fdc3.creditnexus.loan",
     loan |->
        (IF Has(a, "agreement_date")
         THEN [agreementDate |-> a.agreement_date] ELSE EmptyObject)
        @@ (IF Has(a, "parties") THEN [parties |-> a.parties] ELSE EmptyObject)
        @@ (IF Has(a, "facilities")
            THEN [facilities |-> MapFacilities(a.facilities)] ELSE EmptyObject)]

\* contexts other applications broadcast on the bus
InboundContexts == { [type |-> "fdc3.creditnexus.loan"] }

\* rejection reasons typed into the textarea
Reasons == {"", "not a loan"}

VARIABLES
    documentText,    \* App: useState('')
    extractedData,   \* App: useState<CreditAgreement | undefined>()
    isExtracting,    \* App: useState(false)
    fileReads,       \* pending file.text() promises, in selection order
    requests,        \* pending fetch('/api/extract') calls: the text each one sent
    extractedFrom,   \* the request text whose response produced extractedData
    lastSelected,    \* the text of the file the input's last change event held
    fdc3Present,     \* window.fdc3 is defined
    strictEffects,   \* development build: StrictMode runs each effect twice
    isAvailable,     \* useFDC3: useState(false)
    context,         \* useFDC3: useState(null)
    rejectionReason, \* ReviewInterface: useState('')
    mounts,          \* ReviewInterface instances mounted so far
    listeners,       \* addContextListener calls made: registration, owner, release
    sent,            \* window.fdc3.broadcast calls made: payload, outcome, alert
    mockLog,         \* payloads logged by '[FDC3 Mock] Would broadcast'
    disposition,     \* the alert App showed for the agreement under review
    lastReason,      \* the reason of the last rejection alert
    staleReceived,   \* a handler ran for a component that was already torn down
    lastOp,          \* the last user operation and how the UI took it
    ops              \* file selections, extraction requests and approvals so far

appVars == << documentText, extractedData, isExtracting, fileReads, requests,
              extractedFrom, lastSelected >>
hookVars == << isAvailable, context, rejectionReason, mounts, listeners >>
busVars == << sent, mockLog >>
envVars == << fdc3Present, strictEffects >>
outVars == << disposition, lastReason, staleReceived >>
countVars == << ops >>

vars == << appVars, hookVars, busVars, envVars, outVars, countVars, lastOp >>

Init ==
    /\ documentText = <<>>
    /\ extractedData = Undefined
    /\ isExtracting = FALSE
    /\ fileReads = <<>>
    /\ requests = <<>>
    /\ extractedFrom = Undefined
    /\ lastSelected = <<>>
    /\ fdc3Present \in BOOLEAN
    /\ strictEffects \in BOOLEAN
    /\ isAvailable = FALSE
    /\ context = Undefined
    /\ rejectionReason = ""
    /\ mounts = 0
    /\ listeners = <<>>
    /\ sent = <<>>
    /\ mockLog = <<>>
    /\ disposition = "none"
    /\ lastReason = Undefined
    /\ staleReceived = FALSE
    /\ lastOp = "none"
    /\ ops = 0

RemoveAt(s, i) == SubSeq(s, 1, i - 1) \o SubSeq(s, i + 1, Len(s))

(***************************************************************************)
(* Rendering of App                                                        *)
(***************************************************************************)
\* {!extractedData && <Card>...}: file input and Extract button
UploadCardShown == extractedData = Undefined

\* {extractedData && <ReviewInterface .../>}
ReviewShown == extractedData # Undefined

(***************************************************************************)
(* useFDC3: the effect and its cleanup                                     *)
(***************************************************************************)
\* a listener registration made by an effect run of ReviewInterface
\* instance `owner`: the addContextListener promise is pending, the
\* closure's `subscription` is null until it resolves
NewListener(owner) ==
    [owner |-> owner, reg |-> "pending", cleaned |-> FALSE, unsubs |-> 0]

\* EffectCleanup without the null check on subscription
EffectCleanupUnchecked(l) ==
    [l EXCEPT !.cleaned = TRUE, !.unsubs = @ + 1]

\* the effect's cleanup: if (subscription) subscription.unsubscribe()
EffectCleanup(l) ==
    [l EXCEPT !.cleaned = TRUE,
              !.unsubs = IF l.reg = "active" THEN @ + 1 ELSE @]

\* EffectOnMount without the check that window.fdc3 is there
EffectOnMountUnchecked(ls, owner) ==
    IF strictEffects
    THEN ls \o << EffectCleanup(NewListener(owner)), NewListener(owner) >>
    ELSE Append(ls, NewListener(owner))

\* the effect body on mount; StrictMode in development runs effect,
\* cleanup, effect on the same instance
EffectOnMount(ls, owner) ==
    IF fdc3Present
    THEN IF strictEffects
         THEN ls \o << EffectCleanup(NewListener(owner)), NewListener(owner) >>
         ELSE Append(ls, NewListener(owner))
    ELSE ls

\* unmount of instance `owner`: the cleanup of its last effect run
CleanupOnUnmount(ls, owner) ==
    [i \in DOMAIN ls |->
        IF ls[i].owner = owner /\ ~ls[i].cleaned
        THEN EffectCleanup(ls[i]) ELSE ls[i]]

\* the bus delivers to a listener that registered and was not unsubscribed
Live(l) == l.reg = "active" /\ l.unsubs = 0

\* setExtractedData(data) and the commit that follows it: ReviewInterface
\* mounts when data appears and unmounts when it goes
SetExtractedData(data, from) ==
    /\ extractedData' = data
    /\ extractedFrom' = from
    /\ disposition' = "none"
    /\ IF extractedData = Undefined /\ data # Undefined
       THEN /\ mounts' = mounts + 1
            /\ listeners' = EffectOnMount(listeners, mounts + 1)
            /\ isAvailable' = fdc3Present
            /\ context' = Undefined
            /\ rejectionReason' = ""
       ELSE IF extractedData # Undefined /\ data = Undefined
       THEN /\ mounts' = mounts
            /\ listeners' = CleanupOnUnmount(listeners, mounts)
            /\ isAvailable' = FALSE
            /\ context' = Undefined
            /\ rejectionReason' = ""
       ELSE UNCHANGED hookVars

(***************************************************************************)
(* App: handleFileUpload                                                   *)
(***************************************************************************)
\* handleFileUpload up to its await: the file's text is being read
\* (a change event without a file returns at once and changes nothing)
SelectFile(t) ==
    /\ UploadCardShown
    /\ ops < MaxOps
    /\ fileReads' = Append(fileReads, t)
    /\ lastSelected' = t
    /\ ops' = ops + 1
    /\ lastOp' = "select"
    /\ UNCHANGED << documentText, extractedData, isExtracting, requests,
                    extractedFrom, hookVars, busVars, envVars, outVars >>

\* file.text() resolves: setDocumentText(text); setExtractedData(undefined)
ReadComplete(i) ==
    /\ i \in DOMAIN fileReads
    /\ documentText' = fileReads[i]
    /\ SetExtractedData(Undefined, Undefined)
    /\ fileReads' = RemoveAt(fileReads, i)
    /\ lastOp' = "load"
    /\ UNCHANGED << isExtracting, requests, lastSelected, busVars, envVars,
                    lastReason, staleReceived, countVars >>

(***************************************************************************)
(* App: handleExtract                                                      *)
(***************************************************************************)
\* ExtractButtonDisabled without the isExtracting part
ExtractButtonDisabledTextOnly == Trim(documentText) = <<>>

\* disabled={!documentText.trim() || isExtracting}
ExtractButtonDisabled == Trim(documentText) = <<>> \/ isExtracting

\* if (!documentText.trim()) return;
ExtractReturnsEarly == Trim(documentText) = <<>>

\* ExtractAccepted with the checks of the text left out
ExtractAcceptedAnyText == ~isExtracting

\* a click on Extract reaches the fetch
ExtractAccepted == ~ExtractButtonDisabled /\ ~ExtractReturnsEarly

\* click on Extract: setIsExtracting(true) and the fetch, or nothing
ClickExtract ==
    /\ UploadCardShown
    /\ IF ExtractAccepted
       THEN /\ ops < MaxOps
            /\ isExtracting' = TRUE
            /\ requests' = Append(requests, documentText)
            /\ ops' = ops + 1
            /\ lastOp' = "extract"
       ELSE /\ lastOp' = "extract_refused"
            /\ UNCHANGED << isExtracting, requests, ops >>
    /\ UNCHANGED << documentText, extractedData, fileReads, extractedFrom,
                    lastSelected,
                    hookVars, busVars, envVars, outVars >>

\* the response is 2xx and its body parses: setExtractedData(result.agreement
\* || result); finally setIsExtracting(false)
ExtractSucceeded(i, body) ==
    /\ i \in DOMAIN requests
    /\ SetExtractedData(Unwrap(body), requests[i])
    /\ isExtracting' = FALSE
    /\ requests' = RemoveAt(requests, i)
    /\ lastOp' = "extracted"
    /\ UNCHANGED << documentText, fileReads, lastSelected, busVars, envVars,
                    lastReason, staleReceived, countVars >>

\* the catch block: setExtractedData(mock data); finally setIsExtracting(false)
ExtractFailed(i, why) ==
    /\ i \in DOMAIN requests
    /\ why \in Failures
    /\ SetExtractedData(MockAgreement, requests[i])
    /\ isExtracting' = FALSE
    /\ requests' = RemoveAt(requests, i)
    /\ lastOp' = "extraction_failed"
    /\ UNCHANGED << documentText, fileReads, lastSelected, busVars, envVars,
                    lastReason, staleReceived, countVars >>

(***************************************************************************)
(* useFDC3: broadcast                                                      *)
(***************************************************************************)
\* Broadcast without the isAvailable && window.fdc3 check
BroadcastUnchecked(ctx) ==
    /\ sent' = Append(sent, [payload |-> ctx, outcome |-> "pending",
                             alerted |-> "approved"])
    /\ UNCHANGED mockLog

\* Broadcast that hands the context over twice
BroadcastTwice(ctx) ==
    IF isAvailable /\ fdc3Present
    THEN /\ sent' = sent \o << [payload |-> ctx, outcome |-> "pending",
                                 alerted |-> "approved"],
                                [payload |-> ctx, outcome |-> "pending",
                                 alerted |-> "approved"] >>
         /\ UNCHANGED mockLog
    ELSE /\ mockLog' = mockLog \o << ctx, ctx >>
         /\ UNCHANGED sent

\* broadcast(loanContext): forwarded to window.fdc3.broadcast when isAvailable
\* && window.fdc3, logged otherwise; the caller gets no result either way
Broadcast(ctx) ==
    IF isAvailable /\ fdc3Present
    THEN /\ sent' = Append(sent, [payload |-> ctx, outcome |-> "pending",
                                  alerted |-> "approved"])
         /\ UNCHANGED mockLog
    ELSE /\ mockLog' = Append(mockLog, ctx)
         /\ UNCHANGED sent

\* window.fdc3.broadcast(...).then: '[FDC3] Broadcast successful'
BroadcastResolved(i) ==
    /\ i \in DOMAIN sent
    /\ sent[i].outcome = "pending"
    /\ sent' = [sent EXCEPT ![i].outcome = "ok"]
    /\ UNCHANGED << appVars, hookVars, mockLog, envVars, outVars,
                    countVars, lastOp >>

\* window.fdc3.broadcast(...).catch: console.error('[FDC3] Broadcast failed')
BroadcastRejected(i) ==
    /\ i \in DOMAIN sent
    /\ sent[i].outcome = "pending"
    /\ sent' = [sent EXCEPT ![i].outcome = "rejected"]
    /\ UNCHANGED << appVars, hookVars, mockLog, envVars, outVars,
                    countVars, lastOp >>

(***************************************************************************)
(* useFDC3: the listener registration                                      *)
(***************************************************************************)
\* addContextListener(...).then(listener => { subscription = listener })
ListenerResolved(i) ==
    /\ i \in DOMAIN listeners
    /\ listeners[i].reg = "pending"
    /\ listeners' = [listeners EXCEPT ![i].reg = "active"]
    /\ UNCHANGED << appVars, isAvailable, context, rejectionReason, mounts,
                    busVars, envVars, outVars, countVars, lastOp >>

\* addContextListener(...).catch(() => {}): the error is ignored
ListenerRejected(i) ==
    /\ i \in DOMAIN listeners
    /\ listeners[i].reg = "pending"
    /\ listeners' = [listeners EXCEPT ![i].reg = "rejected"]
    /\ UNCHANGED << appVars, isAvailable, context, rejectionReason, mounts,
                    busVars, envVars, outVars, countVars, lastOp >>

\* the component instance a listener's handler belongs to is still mounted
OwnerMounted(l) == ReviewShown /\ l.owner = mounts

\* another application broadcasts c: every live listener's handler runs
\* setContext(ctx)
BusDeliver(c) ==
    /\ \E i \in DOMAIN listeners : Live(listeners[i])
    /\ context' = IF \E i \in DOMAIN listeners :
                        Live(listeners[i]) /\ OwnerMounted(listeners[i])
                  THEN c ELSE context
    /\ staleReceived' = (staleReceived \/ \E i \in DOMAIN listeners :
                            Live(listeners[i]) /\ ~OwnerMounted(listeners[i]))
    /\ UNCHANGED << appVars, isAvailable, rejectionReason, mounts, listeners,
                    busVars, envVars, disposition, lastReason, countVars,
                    lastOp >>

(***************************************************************************)
(* ReviewInterface: handleApprove, handleReject                            *)
(***************************************************************************)
\* the Approve button: disabled={!extractedData || !isSuccess}
ApproveButtonDisabled == extractedData = Undefined \/ ~IsSuccess(extractedData)

\* a click on Approve reaches the body of handleApprove: if (extractedData)
ApproveAccepted == ~ApproveButtonDisabled /\ extractedData # Undefined

\* ClickApprove that reports a failure when there is no bus
ClickApproveNeedsBus ==
    /\ ReviewShown
    /\ IF ApproveAccepted
       THEN /\ ops < MaxOps
            /\ Broadcast(toWireContext(extractedData))
            /\ disposition' = IF fdc3Present THEN "approved"
                               ELSE "publish_failed"
            /\ ops' = ops + 1
            /\ lastOp' = "approve"
       ELSE /\ lastOp' = "approve_refused"
            /\ UNCHANGED << busVars, disposition, ops >>
    /\ UNCHANGED << appVars, hookVars, envVars, lastReason, staleReceived >>

\* click on Approve: broadcast(context of extractedData); onApprove(extractedData),
\* whose alert reads 'Data approved and sent to staging area'
ClickApprove ==
    /\ ReviewShown
    /\ IF ApproveAccepted
       THEN /\ ops < MaxOps
            /\ Broadcast(toWireContext(extractedData))
            /\ disposition' = "approved"
            /\ ops' = ops + 1
            /\ lastOp' = "approve"
       ELSE /\ lastOp' = "approve_refused"
            /\ UNCHANGED << busVars, disposition, ops >>
    /\ UNCHANGED << appVars, hookVars, envVars, lastReason, staleReceived >>

\* the textarea, rendered when !isSuccess: setRejectionReason(e.target.value)
TypeReason(r) ==
    /\ ReviewShown
    /\ ~IsSuccess(extractedData)
    /\ r # rejectionReason
    /\ rejectionReason' = r
    /\ lastOp' = "type"
    /\ UNCHANGED << appVars, isAvailable, context, mounts, listeners, busVars,
                    envVars, outVars, countVars >>

\* ClickReject that also hands the agreement to broadcast
ClickRejectBroadcasting ==
    /\ ReviewShown
    /\ lastReason' = IF rejectionReason # "" THEN rejectionReason
                     ELSE "Rejected by analyst"
    /\ disposition' = "rejected"
    /\ lastOp' = "reject"
    /\ Broadcast(toWireContext(extractedData))
    /\ UNCHANGED << appVars, hookVars, envVars, staleReceived, countVars >>

\* click on Reject: onReject(rejectionReason || 'Rejected by analyst'), whose
\* alert reads 'Data rejected: <reason>'
ClickReject ==
    /\ ReviewShown
    /\ lastReason' = IF rejectionReason # "" THEN rejectionReason
                     ELSE "Rejected by analyst"
    /\ disposition' = "rejected"
    /\ lastOp' = "reject"
    /\ UNCHANGED << appVars, hookVars, busVars, envVars, staleReceived,
                    countVars >>

Next ==
    \/ \E t \in FileTexts : SelectFile(t)
    \/ \E i \in DOMAIN fileReads : ReadComplete(i)
    \/ ClickExtract
    \/ \E i \in DOMAIN requests, body \in ResponseBodies : ExtractSucceeded(i, body)
    \/ \E i \in DOMAIN requests, why \in Failures : ExtractFailed(i, why)
    \/ ClickApprove
    \/ \E r \in Reasons : TypeReason(r)
    \/ ClickReject
    \/ \E i \in DOMAIN listeners : ListenerResolved(i)
    \/ \E i \in DOMAIN listeners : ListenerRejected(i)
    \/ \E i \in DOMAIN sent : BroadcastResolved(i)
    \/ \E i \in DOMAIN sent : BroadcastRejected(i)
    \/ \E c \in InboundContexts : BusDeliver(c)

Spec == Init /\ [][Next]_vars

(***************************************************************************)
(* Properties of the workflow                                              *)
(***************************************************************************)
\* every context handed to broadcast so far, forwarded or logged
Published ==
    {sent[i].payload : i \in DOMAIN sent} \cup {mockLog[i] : i \in DOMAIN mockLog}

\* number of broadcast calls so far
PublishCount == Len(sent) + Len(mockLog)

\* extractionStatus is exactly success
StatusIsSuccess(a) ==
    a # Undefined /\ Has(a, "extraction_status") /\ a.extraction_status = "success"

\* C1: approve() publishes only when an agreement is under review whose
\* extractionStatus is exactly success; with status irrelevant_document or
\* unset an approve publishes nothing.
C1_ApproveOnlyOnSuccess ==
    [][PublishCount' # PublishCount => StatusIsSuccess(extractedData)]_vars

\* C2: once reject() or approve() has disposed of the agreement under
\* review, a further approve() publishes nothing until a new load and a new
\* extraction.
C2_NoPublishAfterDisposition ==
    [][(disposition # "none") => (PublishCount' = PublishCount)]_vars

\* C3: the response of a request superseded by a later load is dropped: an
\* agreement under review was always extracted from the text now loaded.
C3_LateResponseDropped ==
    extractedData # Undefined => extractedFrom = documentText

\* C4: a failed extraction stores no agreement, so nothing approvable is
\* under review after it.
C4_FailureStoresNoAgreement ==
    lastOp = "extraction_failed" => extractedData = Undefined

\* C5: a broadcast the bus rejected is not reported to the user as approved
\* and sent.
C5_PublishRejectedSurfaced ==
    \A i \in DOMAIN sent :
        sent[i].outcome = "rejected" => sent[i].alerted # "approved"

\* C6: in mock mode (no window.fdc3) every publish completes, the approval
\* goes through and the payload is only logged: the bus's broadcast is never
\* called.
C6_MockPublishNeverCallsBus ==
    ~fdc3Present =>
        /\ sent = <<>>
        /\ lastOp = "approve" =>
              /\ disposition = "approved"
              /\ mockLog # <<>>
              /\ mockLog[Len(mockLog)] = toWireContext(extractedData)

C6_Witness ==
    /\ ~fdc3Present
    /\ lastOp = "approve"
    /\ Len(mockLog) = 2

\* C7: after the teardown of the ReviewInterface instance that registered
\* it, no listener is live on the bus and no handler of a torn-down instance
\* receives a context.
C7_NoListenerAfterTeardown ==
    /\ \A i \in DOMAIN listeners :
          ~OwnerMounted(listeners[i]) => ~Live(listeners[i])
    /\ ~staleReceived

\* C8: release is idempotent: no listener is unsubscribed more than once,
\* a cleanup whose registration was rejected or has not resolved makes no
\* unsubscribe call, and in mock mode there is no bus call at all.
C8_ReleaseIdempotent ==
    /\ \A i \in DOMAIN listeners :
          /\ listeners[i].unsubs <= 1
          /\ listeners[i].unsubs = 1 =>
                listeners[i].reg = "active" /\ listeners[i].cleaned
    /\ ~fdc3Present => listeners = <<>>

C8_Witness ==
    \E i, j \in DOMAIN listeners :
        /\ listeners[i].unsubs = 1
        /\ listeners[j].cleaned
        /\ listeners[j].reg = "rejected"
        /\ listeners[j].unsubs = 0

(***************************************************************************)
(* The mapping of handleApprove on well-formed agreements                  *)
(***************************************************************************)
SeqsUpTo(S, n) == UNION { [1..k -> S] : k \in 0..n }

PartyPool ==
    { [name |-> "ACME INDUSTRIES INC.", role |-> "Borrower"],
      [name |-> "GLOBAL BANK CORP.", role |-> "Lender"] }

FacilityPool ==
    { [facility_name |-> "Term Loan Facility",
       commitment_amount |-> [amount |-> 500000000, currency |-> "USD"],
       maturity_date |-> "2028-10-15"],
      [facility_name |-> "Revolver",
       commitment_amount |-> [amount |-> 100, currency |-> "EUR"],
       maturity_date |-> "2029-01-31"],
      [facility_name |-> "Revolver",
       commitment_amount |-> [amount |-> 100, currency |-> "GBP"],
       maturity_date |-> "2029-01-31"] }

\* agreements with every field of CreditAgreement and status success
SuccessAgreements ==
    [agreement_date : {"2023-10-15", "2024-01-31"},
     parties : SeqsUpTo(PartyPool, MaxParties),
     facilities : SeqsUpTo(FacilityPool, MaxFacilities),
     governing_law : {"State of New York"},
     extraction_status : {"success"}]

\* the same agreements without the optional extraction_status
WellFormedAgreements ==
    SuccessAgreements \cup
    { [k \in DOMAIN a \ {"extraction_status"} |-> a[k]] : a \in SuccessAgreements }

\* the state right after the endpoint answered the request for text A with a
\* well-formed agreement and ReviewInterface mounted
InitReview ==
    /\ documentText = <<"A">>
    /\ extractedData \in WellFormedAgreements
    /\ isExtracting = FALSE
    /\ fileReads = <<>>
    /\ requests = <<>>
    /\ extractedFrom = <<"A">>
    /\ lastSelected = <<"A">>
    /\ fdc3Present \in BOOLEAN
    /\ strictEffects \in BOOLEAN
    /\ isAvailable = fdc3Present
    /\ context = Undefined
    /\ rejectionReason = ""
    /\ mounts = 1
    /\ listeners = EffectOnMount(<<>>, 1)
    /\ sent = <<>>
    /\ mockLog = <<>>
    /\ disposition = "none"
    /\ lastReason = Undefined
    /\ staleReceived = FALSE
    /\ lastOp = "extracted"
    /\ ops = 2

NextReview == ClickApprove \/ ClickReject

SpecMapper == InitReview /\ [][NextReview]_vars

\* the wire context w carries the date, the parties and the facility
\* triples of agreement a, in order
Preserves(a, w) ==
    /\ w.loan.agreementDate = a.agreement_date
    /\ Len(w.loan.parties) = Len(a.parties)
    /\ \A i \in 1..Len(a.parties) :
          /\ w.loan.parties[i].name = a.parties[i].name
          /\ w.loan.parties[i].role = a.parties[i].role
    /\ Len(w.loan.facilities) = Len(a.facilities)
    /\ \A i \in 1..Len(a.facilities) :
          /\ w.loan.facilities[i].name = a.facilities[i].facility_name
          /\ w.loan.facilities[i].amount = a.facilities[i].commitment_amount.amount
          /\ w.loan.facilities[i].currency = a.facilities[i].commitment_amount.currency

\* C9: the context built from a well-formed agreement keeps its date, its
\* parties and its facility (name, amount, currency) triples, in the same
\* order and number.
C9_MappingPreserves ==
    /\ \A w \in Published : Preserves(extractedData, w)
    /\ lastOp = "approve" => Published # {}

C9_Witness ==
    /\ lastOp = "approve"
    /\ Len(extractedData.facilities) = 2
    /\ extractedData.facilities[1] # extractedData.facilities[2]
    /\ Len(extractedData.parties) = 2
    /\ Published # {}

\* the text is empty or whitespace only
Blank(t) == \A i \in DOMAIN t : t[i] \in Whitespace

\* C10: with empty loaded text a request for extraction starts no request
\* and leaves the workflow, the text and the agreement as they were.
C10_EmptyTextNotExtracted ==
    [][/\ Blank(documentText) =>
            /\ Len(requests') <= Len(requests)
            /\ isExtracting' => isExtracting
       /\ (Blank(documentText) /\ lastOp' = "extract_refused") =>
            UNCHANGED appVars]_vars

C10_Witness ==
    /\ lastOp = "extract_refused"
    /\ documentText = <<" ">>
    /\ ~isExtracting
    /\ requests = <<>>

\* C11: without window.fdc3 the subscription is inert: no listener is
\* registered, no handler ever runs and the received context stays empty.
C11_MockSubscribeInert ==
    ~fdc3Present =>
        /\ listeners = <<>>
        /\ context = Undefined
        /\ ~isAvailable
        /\ ~staleReceived

C11_Witness ==
    /\ ~fdc3Present
    /\ mounts = 2
    /\ ReviewShown

(***************************************************************************)
(* A host that sets or removes window.fdc3 while the page runs             *)
(***************************************************************************)
\* the desktop agent's preload injects window.fdc3 late, or the host takes
\* it away: the global broadcast reads changes under the hook
HostChange ==
    /\ fdc3Present' = ~fdc3Present
    /\ UNCHANGED << appVars, hookVars, busVars, strictEffects, outVars,
                    countVars, lastOp >>

NextHost == Next \/ HostChange

SpecHost == Init /\ [][NextHost]_vars

\* C12: the result of the probe made when the hook mounted, cached in
\* isAvailable, alone decides every publish: a publish made while the cached
\* result says present is forwarded to the bus, one made while it says
\* absent is logged, whatever the host global holds at that moment.
C12_CachedProbeDecidesPublish ==
    [][PublishCount' # PublishCount =>
          IF isAvailable
          THEN Len(sent') = Len(sent) + 1 /\ mockLog' = mockLog
          ELSE Len(mockLog') = Len(mockLog) + 1 /\ sent' = sent]_vars

\* C13: in Approved or Rejected a load is accepted: the file input is there
\* to take a new document, and a completed load leaves no agreement.
C13_LoadAcceptedAfterDisposition ==
    /\ disposition \in {"approved", "rejected"} => UploadCardShown
    /\ lastOp = "load" => extractedData = Undefined /\ disposition = "none"

\* the shape of a loan context: the discriminant and a loan object with
\* agreementDate, parties and facilities
SchemaValid(w) ==
    /\ Has(w, "type")
    /\ w.type = "fdc3.creditnexus.loan"
    /\ Has(w, "loan")
    /\ Has(w.loan, "agreementDate")
    /\ Has(w.loan, "parties")
    /\ Has(w.loan, "facilities")

\* C14: every payload forwarded to the bus is schema-valid.
C14_ForwardedPayloadsValid ==
    \A i \in DOMAIN sent : SchemaValid(sent[i].payload)

\* a step in which handleApprove ran
ApproveStep == lastOp' = "approve" /\ ops' = ops + 1

\* the context handed to broadcast in this step
NewlyPublished ==
    IF Len(sent') > Len(sent) THEN sent'[Len(sent')].payload
    ELSE mockLog'[Len(mockLog')]

\* C15: every publish is made by approve(): an accepted approve issues
\* exactly one publish, of the context of the agreement under review, and no
\* other step (load, extraction, reject, inbound context, bus events)
\* publishes.
C15_OnlyApprovePublishesOnce ==
    [][/\ (PublishCount' # PublishCount) => ApproveStep
       /\ ApproveStep =>
            /\ PublishCount' = PublishCount + 1
            /\ NewlyPublished = toWireContext(extractedData)
            /\ extractedData' = extractedData
            /\ \A i \in DOMAIN sent : sent'[i].payload = sent[i].payload
            /\ \A i \in DOMAIN mockLog : mockLog'[i] = mockLog[i]]_vars

C15_Witness ==
    /\ lastOp = "approve"
    /\ StatusIsSuccess(extractedData)
    /\ fdc3Present
    /\ Len(sent) = 1
    /\ sent[1].payload = toWireContext(extractedData)
    /\ Len(sent[1].payload.loan.facilities) = 2

\* a step in which handleReject ran
RejectStep == lastOp' = "reject" /\ lastOp # "reject"

\* C16: reject(reason) records the reason (the default text when none was
\* typed) and makes no bus call: the publishes, the listeners, the received
\* context and the stored agreement are what they were.
C16_RejectRecordsReasonOnly ==
    [][RejectStep =>
         /\ disposition' = "rejected"
         /\ lastReason' = (IF rejectionReason = "" THEN "Rejected by analyst"
                           ELSE rejectionReason)
         /\ UNCHANGED << sent, mockLog, listeners, context, isAvailable,
                         extractedData, documentText >>]_vars

C16_Witness ==
    /\ lastOp = "reject"
    /\ disposition = "rejected"
    /\ lastReason = "not a loan"
    /\ IsFailure(extractedData)
    /\ fdc3Present
    /\ \E i \in DOMAIN listeners : Live(listeners[i])
    /\ sent = <<>> /\ mockLog = <<>>

\* a step in which the promise of addContextListener rejected
RegistrationRejectedStep ==
    \E i \in DOMAIN listeners :
        /\ listeners[i].reg = "pending"
        /\ i \in DOMAIN listeners'
        /\ listeners'[i].reg = "rejected"

\* what the component that called useFDC3 can see of the hook, and what the
\* user is told
HookSurface == << isAvailable, context, disposition, lastReason >>

\* a handle whose registration was rejected is never active
RejectedNeverActive ==
    \A i \in DOMAIN listeners :
        listeners[i].reg = "rejected" =>
            listeners[i].unsubs = 0 /\ ~Live(listeners[i])

\* C17: a rejected listener registration is surfaced to the component that
\* requested the subscription (something the component can observe changes),
\* and the handle is never active: no unsubscribe is issued for it and
\* nothing is delivered through it.
C17_RegistrationFailureSurfaced ==
    [][/\ RejectedNeverActive
       /\ RegistrationRejectedStep => HookSurface' # HookSurface]_vars

(***************************************************************************)
(* The workflow on its own: what App and ReviewInterface do to the state   *)
(* they render and to what the user is told, written without the bus       *)
(***************************************************************************)
WorkflowView ==
    << documentText, extractedData, isExtracting, fileReads, requests,
       disposition, lastReason, rejectionReason, lastOp, ops >>

\* setExtractedData(data): the review form is fresh whenever it (un)mounts
WSetExtractedData(data) ==
    /\ extractedData' = data
    /\ disposition' = "none"
    /\ rejectionReason' = IF (extractedData = Undefined) # (data = Undefined)
                          THEN "" ELSE rejectionReason

WSelectFile(t) ==
    /\ UploadCardShown
    /\ ops < MaxOps
    /\ fileReads' = Append(fileReads, t)
    /\ ops' = ops + 1
    /\ lastOp' = "select"
    /\ UNCHANGED << documentText, extractedData, isExtracting, requests,
                    disposition, lastReason, rejectionReason >>

WReadComplete(i) ==
    /\ documentText' = fileReads[i]
    /\ WSetExtractedData(Undefined)
    /\ fileReads' = RemoveAt(fileReads, i)
    /\ lastOp' = "load"
    /\ UNCHANGED << isExtracting, requests, lastReason, ops >>

WClickExtract ==
    /\ UploadCardShown
    /\ IF ExtractAccepted
       THEN /\ ops < MaxOps
            /\ isExtracting' = TRUE
            /\ requests' = Append(requests, documentText)
            /\ ops' = ops + 1
            /\ lastOp' = "extract"
       ELSE /\ lastOp' = "extract_refused"
            /\ UNCHANGED << isExtracting, requests, ops >>
    /\ UNCHANGED << documentText, extractedData, fileReads, disposition,
                    lastReason, rejectionReason >>

WExtractDone(i, data, op) ==
    /\ WSetExtractedData(data)
    /\ isExtracting' = FALSE
    /\ requests' = RemoveAt(requests, i)
    /\ lastOp' = op
    /\ UNCHANGED << documentText, fileReads, lastReason, ops >>

WClickApprove ==
    /\ ReviewShown
    /\ IF ApproveAccepted
       THEN /\ ops < MaxOps
            /\ disposition' = "approved"
            /\ ops' = ops + 1
            /\ lastOp' = "approve"
       ELSE /\ lastOp' = "approve_refused"
            /\ UNCHANGED << disposition, ops >>
    /\ UNCHANGED << documentText, extractedData, isExtracting, fileReads,
                    requests, lastReason, rejectionReason >>

WTypeReason(r) ==
    /\ ReviewShown
    /\ ~IsSuccess(extractedData)
    /\ rejectionReason' = r
    /\ lastOp' = "type"
    /\ UNCHANGED << documentText, extractedData, isExtracting, fileReads,
                    requests, disposition, lastReason, ops >>

WClickReject ==
    /\ ReviewShown
    /\ lastOp' = "reject"
    /\ disposition' = "rejected"
    /\ lastReason' = IF rejectionReason # "" THEN rejectionReason
                     ELSE "Rejected by analyst"
    /\ UNCHANGED << documentText, extractedData, isExtracting, fileReads,
                    requests, rejectionReason, ops >>

WorkflowNext ==
    \/ \E t \in FileTexts : WSelectFile(t)
    \/ \E i \in DOMAIN fileReads : WReadComplete(i)
    \/ WClickExtract
    \/ \E i \in DOMAIN requests, body \in ResponseBodies :
           WExtractDone(i, Unwrap(body), "extracted")
    \/ \E i \in DOMAIN requests :
           WExtractDone(i, MockAgreement, "extraction_failed")
    \/ WClickApprove
    \/ \E r \in Reasons : WTypeReason(r)
    \/ WClickReject

\* C18: with the bus present or absent, every step of the program is a step
\* of the same bus-free workflow or leaves the workflow's state and the
\* reported outcomes as they are: nothing the bus does or fails to do (its
\* absence, a registration, a delivery, a publish and its result) shows in
\* them.
C18_WorkflowIndependentOfBus == [][WorkflowNext]_WorkflowView

C18_Witness ==
    /\ fdc3Present
    /\ context # Undefined
    /\ disposition = "approved"
    /\ \E i \in DOMAIN sent : sent[i].outcome = "rejected"

\* C19: once no file read is pending, the stored document text is the text
\* of the file selected last, whichever order the reads completed in.
C19_LastSelectedFileWins ==
    fileReads = <<>> => documentText = lastSelected

\* C20: at most one extraction request is outstanding, and isExtracting is
\* set exactly while one is: a click on Extract during a request is refused,
\* also when another document was loaded meanwhile, and both the success and
\* the failure path clear the flag.
C20_OneRequestOutstanding ==
    /\ Len(requests) <= 1
    /\ isExtracting <=> requests # <<>>

C20_Witness ==
    /\ isExtracting
    /\ Len(requests) = 1
    /\ lastOp = "extract_refused"
    /\ Trim(documentText) # <<>>
    /\ documentText # requests[1]

=============================================================================
